---------------------------- MODULE Spec2Model ----------------------------
(***************************************************************************)
(* A model of the MongoDB query server (src/main.rs): the hyper service    *)
(* QueryService::call, which turns an HTTP request into a find on a        *)
(* collection and serialises the cursor into one response body, together   *)
(* with its helpers get_query_params, get_failure_response,                *)
(* to_bson_document and get_number_or.                                     *)
(*                                                                         *)
(* Strings are sequences of one-character strings (a multi-byte character  *)
(* is one element, see ByteWidth); a JSON text is a sequence of lexemes.   *)
(***************************************************************************)
EXTENDS Integers, Sequences, FiniteSets, TLC

\* ------------------------------------------------------------------ bounds

\* Number of requests the server sees in one behaviour.
NumReq == 2
\* Longest request path of the input domain, in characters.
MaxPathLen == 3
\* Longest generated JSON text of the input domain, in lexemes.
MaxJsonLen == 2
\* Longest generated numeric parameter of the input domain, in characters.
MaxNumLen == 2
\* Most items a cursor returns.
MaxDocs == 2

Reqs == 1..NumReq

\* ---------------------------------------------------- Option and Result

None == [some |-> FALSE]
Some(x) == [some |-> TRUE, val |-> x]
Err == [ok |-> FALSE]
Ok(x) == [ok |-> TRUE, val |-> x]

\* All sequences over S of length lo..hi.
SeqsOf(S, lo, hi) == UNION {[1..n -> S] : n \in lo..hi}

\* ------------------------------------------------------- status codes

StatusOk == 200
StatusBadRequest == 400
StatusNotFound == 404
StatusInternalServerError == 500

\* ------------------------------------------------------------ routing

\* [[:alpha:]]: the ASCII letters.
Alpha ==
    {"a","b","c","d","e","f","g","h","i","j","k","l","m",
     "n","o","p","q","r","s","t","u","v","w","x","y","z",
     "A","B","C","D","E","F","G","H","I","J","K","L","M",
     "N","O","P","Q","R","S","T","U","V","W","X","Y","Z"}

\* The bracket expression [[:alpha:]_-] of the collection regex.
CollectionClass == Alpha \cup {"_", "-"}

\* The class of a regex that also admits digits (\w-like): a slip in the
\* bracket expression.
CollectionRegexCapturesDigits(path) ==
    LET cls == CollectionClass \cup {"0","1","2","3","4","5","6","7","8","9"}
        run == {k \in 0..(Len(path) - 1) : \A i \in 2..(k + 1) : path[i] \in cls}
        ends == {k \in run : SubSeq(path, k + 2, Len(path)) \in {<<>>, <<"/">>}}
    IN  IF Len(path) = 0 \/ path[1] # "/" \/ ends = {}
        THEN None
        ELSE Some(SubSeq(path, 2, 1 + (CHOOSE k \in ends : \A j \in ends : j <= k)))

\* Regex::new(r"^/([[:alpha:]_-]*)/?$").captures(path), group 1.  The match
\* is anchored at both ends: a leading "/", the longest run of class
\* characters that still lets the rest match (greedy, with backtracking), an
\* optional "/", and the end of the text.
CollectionRegexCaptures(path) ==
    LET run == {k \in 0..(Len(path) - 1) :
                    \A i \in 2..(k + 1) : path[i] \in CollectionClass}
        ends == {k \in run : SubSeq(path, k + 2, Len(path)) \in {<<>>, <<"/">>}}
    IN  IF Len(path) = 0 \/ path[1] # "/" \/ ends = {}
        THEN None
        ELSE Some(SubSeq(path, 2, 1 + (CHOOSE k \in ends : \A j \in ends : j <= k)))

\* ------------------------------------------------- numeric parameters

Digits == <<"0","1","2","3","4","5","6","7","8","9">>
IsDigit(c) == \E d \in 1..10 : Digits[d] = c
DigitVal(c) == (CHOOSE d \in 1..10 : Digits[d] = c) - 1

\* The magnitudes of i64::MAX and i64::MIN as decimal digit strings.
I64MaxMag ==
    <<"9","2","2","3","3","7","2","0","3","6","8","5","4","7","7","5","8","0","7">>
I64MinMag ==
    <<"9","2","2","3","3","7","2","0","3","6","8","5","4","7","7","5","8","0","8">>

RECURSIVE StripZeros(_)
\* A digit string without its leading zeros ("0" for a string of zeros).
StripZeros(ds) ==
    IF Len(ds) > 1 /\ ds[1] = "0" THEN StripZeros(Tail(ds)) ELSE ds

\* a <= b for digit strings without leading zeros.
MagLeq(a, b) ==
    \/ Len(a) < Len(b)
    \/ /\ Len(a) = Len(b)
       /\ \/ a = b
          \/ \E i \in 1..Len(a) :
                /\ \A j \in 1..(i - 1) : a[j] = b[j]
                /\ DigitVal(a[i]) < DigitVal(b[i])

\* An i64 value, kept as sign and decimal magnitude so that the whole range
\* of the type is representable.
I64(neg, mag) == [neg |-> neg /\ mag # <<"0">>, mag |-> mag]
Twenty == I64(FALSE, <<"2","0">>)

\* str::parse::<i64>(): an optional sign, at least one digit, nothing else,
\* and a value inside the type's range (overflow is an error).
ParseI64(s) ==
    LET signed == Len(s) > 0 /\ s[1] \in {"+", "-"}
        neg == Len(s) > 0 /\ s[1] = "-"
        ds == IF signed THEN Tail(s) ELSE s
    IN  IF Len(ds) = 0 \/ \E i \in 1..Len(ds) : ~IsDigit(ds[i])
        THEN Err
        ELSE LET mag == StripZeros(ds)
             IN  IF MagLeq(mag, IF neg THEN I64MinMag ELSE I64MaxMag)
                 THEN Ok(I64(neg, mag))
                 ELSE Err

\* get_number_or that drops the caller's default when the text does not
\* parse.
GetNumberOrNoDefault(query_option, default) ==
    IF query_option.some /\ ParseI64(query_option.val).ok
    THEN Some(ParseI64(query_option.val).val)
    ELSE IF query_option.some THEN None ELSE default

\* get_number_or
GetNumberOr(query_option, default) ==
    IF query_option.some /\ ParseI64(query_option.val).ok
    THEN Some(ParseI64(query_option.val).val)
    ELSE default


\* --------------------------------------------------- JSON to document

\* The lexemes of a JSON text.  StrLex is a string literal, NegLex a number
\* the BSON encoder accepts (a negative integer), BigLex a number it rejects
\* (an unsigned integer above i64::MAX); any other element is not a token.
StrLex == "\"k\""
NegLex == "-1"
BigLex == "18446744073709551615"

ParseFail == [ok |-> FALSE]
Parsed(v, rest) == [ok |-> TRUE, val |-> v, rest |-> rest]

\* Map::insert: a repeated key replaces the earlier value.
MapInsert(fields, k, v) ==
    IF \E i \in 1..Len(fields) : fields[i][1] = k
    THEN [i \in 1..Len(fields) |-> IF fields[i][1] = k THEN <<k, v>> ELSE fields[i]]
    ELSE Append(fields, <<k, v>>)

RECURSIVE ParseValue(_), ParseElements(_, _, _), ParseMembers(_, _, _)
\* One JSON value at the head of ts, and the lexemes left after it.
ParseValue(ts) ==
    IF ts = <<>> THEN ParseFail
    ELSE LET h == Head(ts)
         IN  CASE h = "null" -> Parsed([t |-> "null"], Tail(ts))
               [] h = "true" -> Parsed([t |-> "bool"], Tail(ts))
               [] h = StrLex -> Parsed([t |-> "string"], Tail(ts))
               [] h \in {NegLex, BigLex} -> Parsed([t |-> "number", n |-> h], Tail(ts))
               [] h = "[" -> ParseElements(Tail(ts), <<>>, TRUE)
               [] h = "{" -> ParseMembers(Tail(ts), <<>>, TRUE)
               [] OTHER -> ParseFail

\* The elements of an array after "[" (first) or after a ",".
ParseElements(ts, acc, first) ==
    IF ts = <<>> THEN ParseFail
    ELSE IF first /\ Head(ts) = "]" THEN Parsed([t |-> "array", items |-> acc], Tail(ts))
    ELSE LET v == ParseValue(ts)
         IN  IF ~v.ok \/ v.rest = <<>> THEN ParseFail
             ELSE IF Head(v.rest) = ","
                  THEN ParseElements(Tail(v.rest), Append(acc, v.val), FALSE)
             ELSE IF Head(v.rest) = "]"
                  THEN Parsed([t |-> "array", items |-> Append(acc, v.val)], Tail(v.rest))
             ELSE ParseFail

\* The members of an object after "{" (first) or after a ",".
ParseMembers(ts, acc, first) ==
    IF ts = <<>> THEN ParseFail
    ELSE IF first /\ Head(ts) = "}" THEN Parsed([t |-> "object", fields |-> acc], Tail(ts))
    ELSE IF Len(ts) < 2 \/ ts[1] # StrLex \/ ts[2] # ":" THEN ParseFail
    ELSE LET v == ParseValue(Tail(Tail(ts)))
         IN  IF ~v.ok \/ v.rest = <<>> THEN ParseFail
             ELSE IF Head(v.rest) = ","
                  THEN ParseMembers(Tail(v.rest), MapInsert(acc, StrLex, v.val), FALSE)
             ELSE IF Head(v.rest) = "}"
                  THEN Parsed([t |-> "object", fields |-> MapInsert(acc, StrLex, v.val)],
                              Tail(v.rest))
             ELSE ParseFail

\* serde_json::from_str: one value and nothing after it.
FromStr(ts) ==
    LET v == ParseValue(ts)
    IN  IF v.ok /\ v.rest = <<>> THEN Ok(v.val) ELSE Err

RECURSIVE ToBson(_), ToBsonAll(_)
\* bson::to_bson of a serde_json value: each JSON type becomes its BSON
\* type; an unsigned integer the encoder has no type for is an error.
ToBson(json) ==
    CASE json.t = "null" -> Ok([t |-> "Null"])
      [] json.t = "bool" -> Ok([t |-> "Boolean"])
      [] json.t = "string" -> Ok([t |-> "String"])
      [] json.t = "number" ->
            IF json.n = BigLex THEN Err ELSE Ok([t |-> "I64", n |-> json.n])
      [] json.t = "array" ->
            LET all == ToBsonAll(json.items)
            IN  IF all.ok THEN Ok([t |-> "Array", items |-> all.val]) ELSE Err
      [] json.t = "object" ->
            LET all == ToBsonAll([i \in 1..Len(json.fields) |-> json.fields[i][2]])
            IN  IF all.ok
                THEN Ok([t |-> "Document",
                         fields |-> [i \in 1..Len(json.fields) |->
                                        <<json.fields[i][1], all.val[i]>>]])
                ELSE Err

\* to_bson of every value of a sequence; the first error ends it.
ToBsonAll(vals) ==
    IF vals = <<>> THEN Ok(<<>>)
    ELSE LET h == ToBson(Head(vals))
             r == ToBsonAll(Tail(vals))
         IN  IF h.ok /\ r.ok THEN Ok(<<h.val>> \o r.val) ELSE Err

\* Bson::as_document
AsDocument(bson_value) ==
    IF bson_value.t = "Document" THEN Some(bson_value.fields) ELSE None

\* to_bson_document: a parse or conversion error is returned; a value that
\* is no document falls out of the `if let` to the final Ok(None).
ToBsonDocument(query_option) ==
    IF ~query_option.some THEN Ok(None)
    ELSE LET json == FromStr(query_option.val)
         IN  IF ~json.ok THEN Err
             ELSE LET bson_value == ToBson(json.val)
                  IN  IF ~bson_value.ok THEN Err
                      ELSE IF AsDocument(bson_value.val).some
                           THEN Ok(AsDocument(bson_value.val))
                           ELSE Ok(None)


\* ------------------------------------------------------ serialisation

\* The UTF-8 width of a character: "U+00E9" stands for a two-byte one.
ByteWidth(c) == IF c = "U+00E9" THEN 2 ELSE 1

\* The number of characters of a string, not of bytes.
StrLenChars(s) == Len(s)

RECURSIVE StrLen(_)
\* String::len(): the length in bytes.
StrLen(s) == IF s = <<>> THEN 0 ELSE ByteWidth(Head(s)) + StrLen(Tail(s))

\* Stored documents: ordered fields <<key, printed value>>.
EmptyDoc == <<>>
TwoFieldDoc == << <<"a", "1">>, <<"U+00E9", "2">> >>
Docs == {EmptyDoc, TwoFieldDoc}

RECURSIVE DocFields(_, _)
\* The fields of a document as bson's Display prints them: " k: v" for the
\* first and ", k: v" for the others.
DocFields(doc, first) ==
    IF doc = <<>> THEN <<>>
    ELSE (IF first THEN <<" ">> ELSE <<",", " ">>)
         \o <<Head(doc)[1], ":", " ", Head(doc)[2]>> \o DocFields(Tail(doc), FALSE)

\* bson::Bson::Document(doc).to_string(): "{}" for an empty document,
\* "{ k: v, k: v }" otherwise.
DocToString(doc) ==
    <<"{">> \o DocFields(doc, TRUE) \o (IF doc = <<>> THEN <<>> ELSE <<" ">>) \o <<"}">>

RECURSIVE JoinTrailing(_, _)
\* A join that writes the separator after every element.
JoinTrailing(strs, sep) ==
    IF strs = <<>> THEN <<>> ELSE Head(strs) \o sep \o JoinTrailing(Tail(strs), sep)

RECURSIVE Join(_, _)
\* [String]::join(sep): the separator between elements only.
Join(strs, sep) ==
    IF strs = <<>> THEN <<>>
    ELSE IF Len(strs) = 1 THEN Head(strs)
    ELSE Head(strs) \o sep \o Join(Tail(strs), sep)

\* format!("[{}]", documents.join(","))
FormatOutput(documents) == <<"[">> \o Join(documents, <<",">>) \o <<"]">>

\* ---------------------------------------------------------- responses

NoHeader == [set |-> FALSE]
ContentLength(n) == [set |-> TRUE, len |-> n]

\* Response::new(): status 200, no header, an empty body.
NewResponse == [status |-> StatusOk, contentLength |-> NoHeader, body |-> <<>>]
WithStatus(resp, code) == [resp EXCEPT !.status = code]
WithHeader(resp, h) == [resp EXCEPT !.contentLength = h]
WithBody(resp, b) == [resp EXCEPT !.body = b]

\* get_failure_response: a new response with the status and nothing else.
GetFailureResponse(code) == WithStatus(NewResponse, code)

\* The success response of call: content-length of the output, then the body.
SuccessResponse(output) ==
    WithBody(WithHeader(NewResponse, ContentLength(StrLen(output))), output)

\* ------------------------------------------------------------ requests

\* get_query_params: the decoded pairs of the query string collected into a
\* map, a later pair replacing an earlier one of the same key.
GetQueryParams(request) ==
    IF ~request.query.some THEN <<>>
    ELSE LET pairs == request.query.val
             last(k) == CHOOSE i \in 1..Len(pairs) :
                            /\ pairs[i][1] = k
                            /\ \A j \in (i + 1)..Len(pairs) : pairs[j][1] # k
         IN  [k \in {pairs[i][1] : i \in 1..Len(pairs)} |-> pairs[last(k)][2]]

\* HashMap::get
Get(params, key) == IF key \in DOMAIN params THEN Some(params[key]) ELSE None

\* FindOptions::new()
FindOptionsNew == [limit |-> None, skip |-> None, sort |-> None]

\* The outcomes of collection.find: an error, or a cursor whose items are
\* documents or decode errors.  The database is outside the program, so
\* every outcome is possible for every call.
Items == {Ok(d) : d \in Docs} \cup {Err}
FindOutcomes == {Err} \cup {Ok(c) : c \in SeqsOf(Items, 0, MaxDocs)}


\* -------------------------------------------------------- input domains

Pair(k, opt) == IF opt.some THEN <<<<k, opt.val>>>> ELSE <<>>

\* A request whose query string carries the given parameters (each an
\* Option), or no query string when all are absent.
MkRequest(method, path, limit, skip, sort, query) ==
    LET pairs == Pair("limit", limit) \o Pair("skip", skip)
                 \o Pair("sort", sort) \o Pair("query", query)
    IN  [method |-> method, path |-> path,
         query |-> IF pairs = <<>> THEN None ELSE Some(pairs)]

Methods == {"GET", "POST"}

EmptyObjText == <<"{", "}">>
ObjText == <<"{", StrLex, ":", NegLex, "}">>
EmptyArrText == <<"[", "]">>
TruncatedText == <<"{">>

\* The requests of the concurrent specification: one for every way through
\* the handler (bad method, bad path, bad sort, bad query, and a request
\* that reaches find).
Requests ==
    { MkRequest("POST", <<"/", "a">>, None, None, None, None),
      MkRequest("GET", <<"/", "9">>, None, None, None, None),
      MkRequest("GET", <<"/">>, None, None, Some(TruncatedText), None),
      MkRequest("GET", <<"/", "a">>, Some(<<"7">>), None, None, Some(TruncatedText)),
      MkRequest("GET", <<"/", "a", "/">>, Some(<<"-", "3">>), Some(<<"x">>),
                Some(EmptyObjText), Some(EmptyObjText)) }

\* The input domain of the one-request specification: every path, JSON text
\* and numeric text up to the bounds, each crossed with a core of the other
\* parameters.
PathAlphabet == {"/", "a", "_", "-", "9"}
Paths == SeqsOf(PathAlphabet, 1, MaxPathLen) \cup {<<"/", "Z", "b">>, <<"/", "a", ".", "b">>}
CorePaths == {<<"/">>, <<"/", "a">>}

JsonAlphabet == {"{", "}", "[", "]", ",", ":", StrLex, NegLex, BigLex}
JsonSamples ==
    { ObjText, <<"null">>, <<"true">>, <<"k">>,
      <<"[", NegLex, "]">>,
      <<"{", StrLex, ":", BigLex, "}">>,
      <<"{", StrLex, ":", NegLex>>,
      <<"{", StrLex, ":", NegLex, "}", "}">>,
      <<"{", StrLex, ":", "[", NegLex, ",", "{", "}", "]", "}">> }
JsonTexts == SeqsOf(JsonAlphabet, 0, MaxJsonLen) \cup JsonSamples
JsonOpts == {None} \cup {Some(t) : t \in JsonTexts}
CoreJson == {None, Some(EmptyObjText), Some(TruncatedText), Some(EmptyArrText)}

NumAlphabet == {"-", "+", "0", "7", "x"}
NumSamples ==
    { I64MaxMag, I64MinMag, <<"-">> \o I64MinMag, <<"0", "0">> \o I64MaxMag,
      <<"-">> \o I64MinMag \o <<"0">>, <<"2", "0">> }
NumTexts == SeqsOf(NumAlphabet, 0, MaxNumLen) \cup NumSamples
NumOpts == {None} \cup {Some(t) : t \in NumTexts}
CoreNum == {None, Some(<<"7">>), Some(<<"x">>)}

RoutingRequests ==
    { MkRequest(m, p, None, None, s, None) :
        m \in Methods, p \in Paths, s \in {None, Some(TruncatedText)} }
JsonRequests ==
    { MkRequest("GET", p, l, k, sq[1], sq[2]) :
        p \in CorePaths, l \in {None, Some(<<"x">>)}, k \in {None, Some(<<"7">>)},
        sq \in (JsonOpts \X CoreJson) \cup (CoreJson \X JsonOpts) }
NumberRequests ==
    { MkRequest(m, <<"/", "a">>, lk[1], lk[2], s, q) :
        m \in {"GET"}, s \in {None, Some(TruncatedText)}, q \in {None, Some(<<"k">>)},
        lk \in (NumOpts \X CoreNum) \cup (CoreNum \X NumOpts) }
DuplicateRequests ==
    { [method |-> "GET", path |-> <<"/", "a">>,
       query |-> Some(<< <<"sort", a>>, <<"limit", <<"7">>>>, <<"sort", b>> >>)] :
        a \in {TruncatedText, EmptyObjText}, b \in {TruncatedText, EmptyObjText} }
InputRequests == RoutingRequests \cup JsonRequests \cup NumberRequests \cup DuplicateRequests

\* ---------------------------------------------------------------- state

VARIABLES
    pc,          \* where each request is in call
    req,         \* the request received
    collection,  \* the collection name captured from the path
    opts,        \* the FindOptions being built
    query,       \* the filter document
    cursor,      \* the items the cursor has yet to yield
    documents,   \* the strings collected so far
    responses,   \* the responses call has returned for the request
    finds,       \* the find calls issued for the request, with arguments
    log,         \* the checks call has made for the request, in order
    thread,      \* the request the server's one thread is running, or 0
    crashed      \* the process has panicked

locals == <<collection, opts, query, cursor, documents>>
vars == <<pc, req, collection, opts, query, cursor, documents, responses, finds,
          log, thread, crashed>>

NoRequest == [method |-> "none", path |-> <<>>, query |-> None]

Init ==
    /\ pc = [r \in Reqs |-> "Idle"]
    /\ req = [r \in Reqs |-> NoRequest]
    /\ collection = [r \in Reqs |-> <<>>]
    /\ opts = [r \in Reqs |-> FindOptionsNew]
    /\ query = [r \in Reqs |-> None]
    /\ cursor = [r \in Reqs |-> <<>>]
    /\ documents = [r \in Reqs |-> <<>>]
    /\ responses = [r \in Reqs |-> <<>>]
    /\ finds = [r \in Reqs |-> <<>>]
    /\ log = [r \in Reqs |-> <<>>]
    /\ thread = 0
    /\ crashed = FALSE

\* call returns a response: the request is over and the thread is free.
Return(r, state, resp) ==
    /\ pc' = [pc EXCEPT ![r] = state]
    /\ responses' = [responses EXCEPT ![r] = Append(@, resp)]
    /\ thread' = 0

\* call goes on to its next statement.
Goto(r, state) ==
    /\ pc' = [pc EXCEPT ![r] = state]
    /\ thread' = r
    /\ UNCHANGED responses

\* A request of the domain arrives at the running server.
Receive(r, domain) ==
    /\ ~crashed
    /\ pc[r] = "Idle"
    /\ pc' = [pc EXCEPT ![r] = "Received"]
    /\ \E q \in domain : req' = [req EXCEPT ![r] = q]
    /\ UNCHANGED <<locals, responses, finds, log, thread, crashed>>

\* call starts on the free thread: the method check.
CheckMethod(r) ==
    /\ ~crashed
    /\ thread = 0
    /\ pc[r] = "Received"
    /\ log' = [log EXCEPT ![r] = Append(@, "method")]
    /\ IF req[r].method # "GET"
       THEN Return(r, "Rejected", GetFailureResponse(StatusNotFound))
       ELSE Goto(r, "PathCheck")
    /\ UNCHANGED <<req, locals, finds, crashed>>

\* The collection regex against the path.
MatchPath(r) ==
    /\ ~crashed
    /\ thread = r
    /\ pc[r] = "PathCheck"
    /\ log' = [log EXCEPT ![r] = Append(@, "path")]
    /\ LET captures == CollectionRegexCaptures(req[r].path)
       IN  IF captures.some
           THEN /\ collection' = [collection EXCEPT ![r] = captures.val]
                /\ Goto(r, "Routed")
           ELSE /\ Return(r, "Rejected", GetFailureResponse(StatusBadRequest))
                /\ UNCHANGED collection
    /\ UNCHANGED <<req, opts, query, cursor, documents, finds, crashed>>

\* The find options: limit with default 20, skip with no default.
SetOptions(r) ==
    /\ ~crashed
    /\ thread = r
    /\ pc[r] = "Routed"
    /\ LET params == GetQueryParams(req[r])
       IN  opts' = [opts EXCEPT ![r] =
                        [FindOptionsNew EXCEPT
                            !.limit = GetNumberOr(Get(params, "limit"), Some(Twenty)),
                            !.skip = GetNumberOr(Get(params, "skip"), None)]]
    /\ Goto(r, "SortParse")
    /\ UNCHANGED <<req, collection, query, cursor, documents, finds, log, crashed>>

\* The sort parameter; an error ends the request here.
TranslateSortRecover(r) ==
    /\ ~crashed
    /\ thread = r
    /\ pc[r] = "SortParse"
    /\ log' = [log EXCEPT ![r] = Append(@, "sort")]
    /\ LET v == ToBsonDocument(Get(GetQueryParams(req[r]), "sort"))
       IN  /\ opts' = [opts EXCEPT ![r].sort = IF v.ok THEN v.val ELSE None]
           /\ Goto(r, "QueryParse")
    /\ UNCHANGED <<req, collection, query, cursor, documents, finds, crashed>>

\* The sort parameter.
TranslateSort(r) ==
    /\ ~crashed
    /\ thread = r
    /\ pc[r] = "SortParse"
    /\ log' = [log EXCEPT ![r] = Append(@, "sort")]
    /\ LET v == ToBsonDocument(Get(GetQueryParams(req[r]), "sort"))
       IN  IF v.ok
           THEN /\ opts' = [opts EXCEPT ![r].sort = v.val]
                /\ Goto(r, "QueryParse")
           ELSE /\ Return(r, "Rejected", GetFailureResponse(StatusBadRequest))
                /\ UNCHANGED opts
    /\ UNCHANGED <<req, collection, query, cursor, documents, finds, crashed>>

\* The query parameter, with an error taken as no filter.
TranslateQueryLenient(r) ==
    /\ ~crashed
    /\ thread = r
    /\ pc[r] = "QueryParse"
    /\ log' = [log EXCEPT ![r] = Append(@, "query")]
    /\ LET v == ToBsonDocument(Get(GetQueryParams(req[r]), "query"))
       IN  /\ query' = [query EXCEPT ![r] = IF v.ok THEN v.val ELSE None]
           /\ Goto(r, "Translated")
    /\ UNCHANGED <<req, collection, opts, cursor, documents, finds, crashed>>

\* The query parameter.
TranslateQuery(r) ==
    /\ ~crashed
    /\ thread = r
    /\ pc[r] = "QueryParse"
    /\ log' = [log EXCEPT ![r] = Append(@, "query")]
    /\ LET v == ToBsonDocument(Get(GetQueryParams(req[r]), "query"))
       IN  IF v.ok
           THEN /\ query' = [query EXCEPT ![r] = v.val]
                /\ Goto(r, "Translated")
           ELSE /\ Return(r, "Rejected", GetFailureResponse(StatusBadRequest))
                /\ UNCHANGED query
    /\ UNCHANGED <<req, collection, opts, cursor, documents, finds, crashed>>

\* collection.find(query, Some(opts)): an error is answered with 500, a
\* cursor is kept for the iteration.
Find(r) ==
    /\ ~crashed
    /\ thread = r
    /\ pc[r] = "Translated"
    /\ log' = [log EXCEPT ![r] = Append(@, "find")]
    /\ \E outcome \in FindOutcomes :
        /\ finds' = [finds EXCEPT ![r] =
                        Append(@, [collection |-> collection[r], filter |-> query[r],
                                   options |-> opts[r], outcome |-> outcome])]
        /\ IF outcome.ok
           THEN /\ cursor' = [cursor EXCEPT ![r] = outcome.val]
                /\ Goto(r, "Executed")
           ELSE /\ Return(r, "Rejected", GetFailureResponse(StatusInternalServerError))
                /\ UNCHANGED cursor
    /\ UNCHANGED <<req, collection, opts, query, documents, crashed>>

\* One step of the map over the cursor: item.unwrap() panics on an item
\* that failed to decode, and nothing catches the panic.
MapItem(r) ==
    /\ ~crashed
    /\ thread = r
    /\ pc[r] = "Executed"
    /\ cursor[r] # <<>>
    /\ IF Head(cursor[r]).ok
       THEN /\ documents' = [documents EXCEPT ![r] =
                                Append(@, DocToString(Head(cursor[r]).val))]
            /\ cursor' = [cursor EXCEPT ![r] = Tail(@)]
            /\ UNCHANGED <<pc, crashed>>
       ELSE /\ pc' = [pc EXCEPT ![r] = "Panicked"]
            /\ crashed' = TRUE
            /\ UNCHANGED <<documents, cursor>>
    /\ UNCHANGED <<req, collection, opts, query, responses, finds, log, thread>>

\* The cursor is exhausted: the output is formatted and returned.
Respond(r) ==
    /\ ~crashed
    /\ thread = r
    /\ pc[r] = "Executed"
    /\ cursor[r] = <<>>
    /\ Return(r, "Responded", SuccessResponse(FormatOutput(documents[r])))
    /\ UNCHANGED <<req, locals, finds, log, crashed>>

\* QueryService::call, statement by statement.
Call(r) ==
    \/ CheckMethod(r)
    \/ MatchPath(r)
    \/ SetOptions(r)
    \/ TranslateSort(r)
    \/ TranslateQuery(r)
    \/ Find(r)
    \/ MapItem(r)
    \/ Respond(r)

\* The server: requests arrive and the one thread runs call on them.
Next ==
    \/ \E r \in Reqs : Receive(r, Requests)
    \/ \E r \in Reqs : Call(r)

Spec == Init /\ [][Next]_vars

\* The event loop runs a started or waiting call as long as the process
\* lives.
FairSpec == Spec /\ WF_vars(\E r \in Reqs : Call(r))

\* One request drawn from the whole input domain.
NextInput ==
    \/ Receive(1, InputRequests)
    \/ Call(1)

InputSpec == Init /\ [][NextInput]_vars


\* ------------------------------------------------------------- properties

\* The effective value of a query parameter of request r.
Param(r, key) == Get(GetQueryParams(req[r]), key)

\* The characters between the leading slash and the optional trailing one.
PathName(p) ==
    IF Len(p) >= 2 /\ p[Len(p)] = "/" THEN SubSeq(p, 2, Len(p) - 1) ELSE SubSeq(p, 2, Len(p))

\* A slash, zero or more characters of [A-Za-z_-], an optional slash.
WellFormedPath(p) ==
    /\ Len(p) >= 1
    /\ p[1] = "/"
    /\ \A i \in 1..Len(PathName(p)) : PathName(p)[i] \in CollectionClass

InvalidJson(opt) == opt.some /\ ~FromStr(opt.val).ok
NonObjectJson(opt) == opt.some /\ FromStr(opt.val).ok /\ FromStr(opt.val).val.t # "object"
ObjectJson(opt) == opt.some /\ FromStr(opt.val).ok /\ FromStr(opt.val).val.t = "object"

Statuses(r) == {responses[r][i].status : i \in 1..Len(responses[r])}
EmptyBodied(r) == \A i \in 1..Len(responses[r]) : responses[r][i].body = <<>>
Ended(r) == pc[r] \in {"Responded", "Rejected", "Panicked"}
BeforeTranslated(r) ==
    pc[r] \in {"Received", "PathCheck", "Routed", "SortParse", "QueryParse", "Rejected"}

\* C1: a GET request with a well-formed path whose query or sort is valid
\* JSON but not an object is answered with 400 and never reaches find.
C1_NonObjectRejected ==
    \A r \in Reqs :
        ( /\ pc[r] # "Idle"
          /\ req[r].method = "GET"
          /\ WellFormedPath(req[r].path)
          /\ NonObjectJson(Param(r, "sort")) \/ NonObjectJson(Param(r, "query")) )
        => /\ finds[r] = <<>>
           /\ Ended(r) => pc[r] = "Rejected" /\ Statuses(r) = {StatusBadRequest}

\* C2: every execution error, a failed find or a cursor item that fails to
\* decode, yields a response with status 500 and an empty body.
C2_ExecutionErrorIs500 ==
    \A r \in Reqs :
        ( /\ finds[r] # <<>>
          /\ ~finds[r][1].outcome.ok \/ pc[r] = "Panicked" )
        => /\ Len(responses[r]) = 1
           /\ Statuses(r) = {StatusInternalServerError}
           /\ EmptyBodied(r)

\* C3: a GET request with a well-formed path whose query or sort is present
\* and not valid JSON never gets past translation, issues no find, and is
\* answered with status 400 and an empty body, whatever the other
\* parameters are.
C3_InvalidJsonIs400 ==
    \A r \in Reqs :
        ( /\ pc[r] # "Idle"
          /\ req[r].method = "GET"
          /\ WellFormedPath(req[r].path)
          /\ InvalidJson(Param(r, "sort")) \/ InvalidJson(Param(r, "query")) )
        => /\ BeforeTranslated(r)
           /\ finds[r] = <<>>
           /\ pc[r] = "Rejected" =>
                responses[r] = <<[status |-> StatusBadRequest,
                                  contentLength |-> NoHeader, body |-> <<>>]>>
           /\ pc[r] # "Rejected" => responses[r] = <<>>

\* C3 happens: a bad query beside a good sort and a limit was answered 400.
C3_Witness ==
    \E r \in Reqs :
        /\ pc[r] = "Rejected"
        /\ InvalidJson(Param(r, "query"))
        /\ ObjectJson(Param(r, "sort"))
        /\ Param(r, "limit").some
        /\ Statuses(r) = {StatusBadRequest}

\* C4: every received request ends Responded or Rejected with exactly one
\* response.
C4_ExactlyOneResponse ==
    \A r \in Reqs :
        (pc[r] = "Received")
            ~> (pc[r] \in {"Responded", "Rejected"} /\ Len(responses[r]) = 1)

\* C5: routing is decided by method and path alone: a non-GET request gets
\* 404, a GET request with a malformed path 400, and a GET request with a
\* well-formed path goes on with the characters between the slashes as its
\* collection name.
C5_RoutingByMethodAndPath ==
    \A r \in Reqs :
        /\ (pc[r] \notin {"Idle", "Received"} /\ req[r].method # "GET")
            => /\ pc[r] = "Rejected"
               /\ Statuses(r) = {StatusNotFound}
               /\ Len(responses[r]) = 1
        /\ ( /\ pc[r] \notin {"Idle", "Received", "PathCheck"}
             /\ req[r].method = "GET"
             /\ ~WellFormedPath(req[r].path) )
            => /\ pc[r] = "Rejected"
               /\ Statuses(r) = {StatusBadRequest}
               /\ Len(responses[r]) = 1
               /\ finds[r] = <<>>
        /\ ( /\ pc[r] \notin {"Idle", "Received", "PathCheck"}
             /\ req[r].method = "GET"
             /\ WellFormedPath(req[r].path) )
            => /\ collection[r] = PathName(req[r].path)
               /\ StatusNotFound \notin Statuses(r)
               /\ \A i \in 1..Len(finds[r]) :
                    finds[r][i].collection = PathName(req[r].path)

\* C5 happens: a find was issued on the collection of a path with a
\* trailing slash.
C5_Witness ==
    \E r \in Reqs :
        /\ req[r].path = <<"/", "a", "/">>
        /\ finds[r] # <<>>
        /\ finds[r][1].collection = <<"a">>

\* The limit and skip the request's parameters call for.
ExpectedLimit(r) ==
    LET l == Param(r, "limit")
    IN  IF l.some /\ ParseI64(l.val).ok THEN Some(ParseI64(l.val).val) ELSE Some(Twenty)
ExpectedSkip(r) ==
    LET k == Param(r, "skip")
    IN  IF k.some /\ ParseI64(k.val).ok THEN Some(ParseI64(k.val).val) ELSE None

\* C6: the effective limit is the parsed value when limit parses as an i64
\* and 20 otherwise, the effective skip is the parsed value or none, every
\* find is issued with them, and a 400 is only ever caused by the path, the
\* sort or the query.
C6_LenientNumbers ==
    \A r \in Reqs :
        /\ ( \/ pc[r] \in {"SortParse", "QueryParse", "Translated", "Executed",
                           "Responded", "Panicked"}
             \/ \E i \in 1..Len(log[r]) : log[r][i] = "sort" )
            => /\ opts[r].limit = ExpectedLimit(r)
               /\ opts[r].skip = ExpectedSkip(r)
        /\ \A i \in 1..Len(finds[r]) :
            /\ finds[r][i].options.limit = ExpectedLimit(r)
            /\ finds[r][i].options.skip = ExpectedSkip(r)
        /\ StatusBadRequest \in Statuses(r)
            => \/ ~WellFormedPath(req[r].path)
               \/ ~ToBsonDocument(Param(r, "sort")).ok
               \/ ~ToBsonDocument(Param(r, "query")).ok

\* C6 happens: a find went out with limit 20 for a limit that overflows an
\* i64, and with the parsed skip.
C6_Witness ==
    \E r \in Reqs :
        /\ Param(r, "limit") = Some(I64MinMag)
        /\ Param(r, "skip") = Some(<<"7">>)
        /\ finds[r] # <<>>
        /\ finds[r][1].options.limit = Some(Twenty)
        /\ finds[r][1].options.skip = Some(I64(FALSE, <<"7">>))

RECURSIVE CommaSeparated(_)
\* The texts in order with one comma between neighbours.
CommaSeparated(texts) ==
    IF texts = <<>> THEN <<>>
    ELSE IF Len(texts) = 1 THEN texts[1]
    ELSE CommaSeparated(SubSeq(texts, 1, Len(texts) - 1)) \o <<",">> \o texts[Len(texts)]

\* C7: every 200 response has as its body an opening bracket, the text of
\* every document of the cursor in cursor order separated by single commas,
\* and a closing bracket; "[]" when the cursor is empty.
C7_BodyIsArrayOfCursor ==
    \A r \in Reqs :
        \A i \in 1..Len(responses[r]) :
            responses[r][i].status = StatusOk =>
                /\ Len(finds[r]) = 1
                /\ finds[r][1].outcome.ok
                /\ LET items == finds[r][1].outcome.val
                       body == responses[r][i].body
                   IN  /\ \A j \in 1..Len(items) : items[j].ok
                       /\ body = <<"[">>
                                 \o CommaSeparated([j \in 1..Len(items) |->
                                                       DocToString(items[j].val)])
                                 \o <<"]">>
                       /\ body[1] = "[" /\ body[Len(body)] = "]"
                       /\ body[2] # "," /\ body[Len(body) - 1] # ","
                       /\ items = <<>> => body = <<"[", "]">>

\* C7 happens: a cursor of two different documents was answered.
C7_Witness ==
    \E r \in Reqs :
        /\ pc[r] = "Responded"
        /\ finds[r][1].outcome = Ok(<<Ok(TwoFieldDoc), Ok(EmptyDoc)>>)
        /\ Len(responses[r]) = 1

\* The byte length of a text: one per character and one more for each
\* two-byte character.
ByteLength(s) == Len(s) + Cardinality({i \in 1..Len(s) : s[i] = "U+00E9"})

\* C8 as claimed: every response, failure responses included, carries a
\* content-length header set by the handler, equal to the byte length of
\* its body.
C8_EveryResponseHasContentLength ==
    \A r \in Reqs :
        \A i \in 1..Len(responses[r]) :
            /\ responses[r][i].contentLength.set
            /\ responses[r][i].contentLength.len = ByteLength(responses[r][i].body)

\* C8 as amended: every 200 response carries a content-length header set by
\* the handler, equal to the byte length of its body; a failure response
\* (400, 404, 500) has an empty body and no content-length set by the
\* handler.
C8_ContentLengthOnSuccess ==
    \A r \in Reqs :
        \A i \in 1..Len(responses[r]) :
            /\ responses[r][i].status = StatusOk =>
                /\ responses[r][i].contentLength.set
                /\ responses[r][i].contentLength.len = ByteLength(responses[r][i].body)
            /\ responses[r][i].status # StatusOk =>
                /\ responses[r][i].status \in
                    {StatusBadRequest, StatusNotFound, StatusInternalServerError}
                /\ ~responses[r][i].contentLength.set
                /\ responses[r][i].body = <<>>

\* C8 happens: a 200 response whose body holds a two-byte character.
C8_Witness ==
    \E r \in Reqs :
        /\ pc[r] = "Responded"
        /\ \E j \in 1..Len(responses[r][1].body) : responses[r][1].body[j] = "U+00E9"
        /\ responses[r][1].contentLength.set

\* C9: an error in one request never prevents the response of another
\* request in flight: a request still waiting can still be served.
C9_NoInterference ==
    \A r, s \in Reqs :
        ( /\ r # s
          /\ pc[r] \in {"Rejected", "Panicked"}
          /\ pc[s] = "Received" )
        => ~crashed

\* C10: find is issued at most once per request, and only after the method
\* check, the path check, the sort translation and the query translation,
\* in that order, have succeeded; a request answered 404 or 400 issued no
\* find; a failed find is answered 500 at once and not retried.
C10_FindOnceAfterChecks ==
    \A r \in Reqs :
        /\ Len(finds[r]) <= 1
        /\ finds[r] # <<>> =>
            /\ log[r] = <<"method", "path", "sort", "query", "find">>
            /\ req[r].method = "GET"
            /\ WellFormedPath(req[r].path)
            /\ ToBsonDocument(Param(r, "sort")).ok
            /\ ToBsonDocument(Param(r, "query")).ok
            /\ ~BeforeTranslated(r) \/ pc[r] = "Rejected"
        /\ (Statuses(r) \cap {StatusBadRequest, StatusNotFound} # {}) => finds[r] = <<>>
        /\ (finds[r] # <<>> /\ ~finds[r][1].outcome.ok) =>
            /\ pc[r] = "Rejected"
            /\ responses[r] = <<GetFailureResponse(StatusInternalServerError)>>

\* C10 happens: a find failed and the request was answered 500.
C10_Witness ==
    \E r \in Reqs :
        /\ Len(finds[r]) = 1
        /\ ~finds[r][1].outcome.ok
        /\ Statuses(r) = {StatusInternalServerError}

=============================================================================
